---- MODULE Spec2Model ----
(***************************************************************************)
(* Supervolt BMS driver (custom_components/bms_ble/plugins/supervolt_bms): *)
(* the telemetry record SupervoltData (parse, getData, resetValues) and    *)
(* the poll of the driver BMS (async_update, _connect, disconnect,         *)
(* _notification_handler, _wait_event).                                    *)
(*                                                                         *)
(* Representation.  A Python value that may be None is a sequence of       *)
(* length 0 (None) or 1 (the value).  A raw buffer is a sequence of        *)
(* character codes: 0..15 are the hex digits '0'..'F', NonHex is any       *)
(* character int(text, 16) rejects.  Voltages are kept in millivolt,       *)
(* currents in 1/100 A and capacities in 1/10 Ah, the integers the code    *)
(* divides by 1000.0, 100.0 and 10.0.                                      *)
(***************************************************************************)
EXTENDS Integers, Sequences, FiniteSets, TLC

\* ------------------------------------------------------------ constants
BAT_TIMEOUT == 10
MAX_TIME_S == 120
\* the plausibility ceiling "> 500" A, in 1/100 A
CURRENT_LIMIT == 50000
\* lengths of the two recognised frames
REALTIME_LEN == 128
CAPACITY_LEN == 30
\* a character that is no hex digit
NonHex == 16

\* ------------------------------------------------------------ bounds
\* time is advanced in steps of TickStep up to MaxTime
TickStep == 60
MaxTime == 130
\* polls started on the driver
MaxPolls == 2
\* frames the device sends in all
MaxRx == 2
\* driver instances constructed
MaxInst == 2

\* BMS types in the enumeration BmsTypes
NTypes == 3

\* ------------------------------------------------------------ values
None == << >>
Some(v) == << v >>
IsSet(o) == o # None

\* ------------------------------------------------------------ hex text
RECURSIVE HexDigits(_, _)
\* the w-digit big-endian hex text of v
HexDigits(v, w) == IF w = 0 THEN << >>
                   ELSE Append(HexDigits(v \div 16, w - 1), v % 16)

RECURSIVE HexAcc(_, _)
HexAcc(s, acc) == IF s = << >> THEN acc
                  ELSE HexAcc(Tail(s), acc * 16 + Head(s))

\* int(text, 16): None stands for the ValueError
HexInt(s) == IF s = << >> \/ \E i \in 1..Len(s) : s[i] \notin 0..15
             THEN None
             ELSE Some(HexAcc(s, 0))

\* data[start:end] of Python (0-based, end exclusive)
Slice(data, start, end) == SubSeq(data, start + 1, end)

\* int(data[start:end].decode(), 16)
Field(data, start, end) == HexInt(Slice(data, start, end))

\* ------------------------------------------------------------ the record
\* SupervoltData(): the class-level defaults (None, and lastUpdatetime the
\* time the module was loaded) with the two lists made by __init__; the
\* attributes parse and resetValues create later are None until then
NewData(t0) ==
    [ cellV |-> [i \in 1..16 |-> None],
      totalV |-> None, soc |-> None, workingState |-> None, alarm |-> None,
      chargingA |-> None, dischargingA |-> None, loadA |-> None,
      tempC |-> [i \in 1..4 |-> None],
      completeAh |-> None, remainingAh |-> None, designedAh |-> None,
      address |-> None, command |-> None, version |-> None, length |-> None,
      balanceState |-> None, dischargeNumber |-> None, chargeNumber |-> None,
      lastUpdatetime |-> t0 ]

\* the state of one run of parse: the record so far, and whether an
\* exception has ended the run
Run(r) == [r |-> r, ok |-> TRUE]

\* self.<name> = int(data[start:end].decode(), 16)
Put(s, name, data, start, end) ==
    IF ~s.ok THEN s
    ELSE LET v == Field(data, start, end)
         IN  IF v = None THEN [s EXCEPT !.ok = FALSE]
             ELSE [s EXCEPT !.r = [@ EXCEPT ![name] = v]]

\* self.totalV = 0
ZeroTotal(s) ==
    IF ~s.ok THEN s ELSE [s EXCEPT !.r = [@ EXCEPT !.totalV = Some(0)]]

RECURSIVE PutCells(_, _, _, _)
\* for i in range(0, 11): cellV[i] = int(...)/1000.0; totalV += cellV[i]
PutCells(s, data, start, i) ==
    IF ~s.ok \/ i >= 11 \/ Len(s.r.cellV) = 0 THEN s
    ELSE LET v == Field(data, start + i * 4, start + i * 4 + 4)
         IN  IF v = None THEN [s EXCEPT !.ok = FALSE]
             ELSE PutCells([s EXCEPT !.r = [@ EXCEPT !.cellV[i + 1] = v,
                                                    !.totalV = Some(@[1] + v[1])]],
                           data, start, i + 1)

\* Clamp without the plausibility ceiling
Clamp_raw(v) == v

\* the stored value of a component current decoded as v (1/100 A)
Clamp(v) == IF v > CURRENT_LIMIT THEN 0 ELSE v

\* self.<name> = int(...)/100.0; if self.<name> > 500: self.<name> = 0.0
PutCurrent(s, name, data, start, end) ==
    IF ~s.ok THEN s
    ELSE LET v == Field(data, start, end)
         IN  IF v = None THEN [s EXCEPT !.ok = FALSE]
             ELSE [s EXCEPT !.r = [@ EXCEPT ![name] = Some(Clamp(v[1]))]]

\* self.loadA = -self.chargingA + self.dischargingA
PutLoad(s) ==
    IF ~s.ok THEN s
    ELSE [s EXCEPT !.r = [@ EXCEPT !.loadA =
                             Some(-s.r.chargingA[1] + s.r.dischargingA[1])]]

RECURSIVE PutTemps(_, _, _, _)
\* for i in range(0, 4): tempC[i] = int(...) - 40
PutTemps(s, data, start, i) ==
    IF ~s.ok \/ i >= 4 THEN s
    ELSE IF Len(s.r.tempC) = 0 THEN PutTemps(s, data, start, i + 1)
    ELSE LET v == Field(data, start + i * 2, start + i * 2 + 2)
         IN  IF v = None THEN [s EXCEPT !.ok = FALSE]
             ELSE PutTemps([s EXCEPT !.r = [@ EXCEPT !.tempC[i + 1] = Some(v[1] - 40)]],
                           data, start, i + 1)

\* lastUpdatetime assigned in a finally clause: stamped whether or not
\* the decode ran to its end
Stamp_always(s, t) == [s EXCEPT !.r = [@ EXCEPT !.lastUpdatetime = t]]

\* self.lastUpdatetime = time.time()
Stamp(s, t) ==
    IF ~s.ok THEN s ELSE [s EXCEPT !.r = [@ EXCEPT !.lastUpdatetime = t]]

\* the address, command, version and length fields both frames start with
PutHeader(s, data) ==
    Put(Put(Put(Put(s, "address", data, 1, 3), "command", data, 3, 5),
            "version", data, 5, 7), "length", data, 7, 11)

\* the branch len(data) == 128
parseRealtime(r, data, t) ==
    LET s1 == PutHeader(Run(r), data)
        s2 == PutCells(ZeroTotal(s1), data, 25, 0)
        s3 == PutCurrent(s2, "chargingA", data, 89, 93)
        s4 == PutLoad(PutCurrent(s3, "dischargingA", data, 93, 97))
        s5 == PutTemps(s4, data, 97, 0)
        s6 == Put(Put(s5, "workingState", data, 105, 109), "alarm", data, 109, 111)
        s7 == Put(Put(Put(s6, "balanceState", data, 111, 115),
                      "dischargeNumber", data, 115, 119),
                  "chargeNumber", data, 119, 123)
        s8 == Put(s7, "soc", data, 123, 125)
    IN  Stamp(s8, t)

\* the branch len(data) == 30 without line 251 (self.lastUpdatetime = ...)
parseCapacity_noStamp(r, data, t) ==
    Put(Put(Put(PutHeader(Run(r), data), "remainingAh", data, 15, 19),
            "completeAh", data, 19, 23), "designedAh", data, 23, 27)

\* the branch len(data) == 30
parseCapacity(r, data, t) ==
    LET s1 == PutHeader(Run(r), data)
        s2 == Put(s1, "remainingAh", data, 15, 19)
        s3 == Put(s2, "completeAh", data, 19, 23)
        s4 == Put(s3, "designedAh", data, 23, 27)
    IN  Stamp(s4, t)

\* parseRun taking every buffer of at least 128 bytes for a realtime frame
parseRun_atLeast(r, data, t) ==
    IF data = << >> THEN [r |-> r, ok |-> FALSE]
    ELSE IF Len(data) >= REALTIME_LEN THEN parseRealtime(r, data, t)
    ELSE IF Len(data) = CAPACITY_LEN THEN parseCapacity(r, data, t)
    ELSE [r |-> r, ok |-> FALSE]

\* SupervoltData.parse at time t: the record afterwards and whether the
\* decode ran to its end (ok); an exception is caught and logged
parseRun(r, data, t) ==
    IF data = << >> THEN [r |-> r, ok |-> FALSE]
    ELSE IF Len(data) = REALTIME_LEN THEN parseRealtime(r, data, t)
    ELSE IF Len(data) = CAPACITY_LEN THEN parseCapacity(r, data, t)
    ELSE [r |-> r, ok |-> FALSE]

parse(r, data, t) == parseRun(r, data, t).r

\* Python's "not self.totalV": None and 0 are both falsy
Falsy(o) == o = None \/ o[1] = 0

\* the test that makes getData return None
TooOld(r, t) == (t - r.lastUpdatetime) > MAX_TIME_S \/ Falsy(r.totalV)

\* SupervoltData.getData at time t: None, or the dictionary
getData(r, t) ==
    IF TooOld(r, t) THEN None
    ELSE Some([ voltage |-> r.totalV, delta_voltage |-> r.totalV,
                current |-> r.loadA, battery_level |-> r.soc,
                cycle_capacity |-> r.remainingAh, cell_count |-> 4,
                temperature |-> r.tempC[1],
                cell_voltages |-> SubSeq(r.cellV, 1, 4) ])

\* SupervoltData.resetValues
\* resetValues without line 308 (self.totalV = None)
resetValues_keepsTotal(r) ==
    [r EXCEPT !.alarm = None, !.balanceState = None,
              !.cellV = [i \in 1..16 |-> IF i <= 11 /\ Len(r.cellV) > 0 THEN None ELSE @[i]],
              !.chargeNumber = None, !.chargingA = None, !.completeAh = None,
              !.designedAh = None, !.dischargeNumber = None,
              !.dischargingA = None, !.loadA = None, !.remainingAh = None,
              !.soc = None,
              !.tempC = [i \in 1..4 |-> IF Len(r.tempC) > 0 THEN None ELSE @[i]],
              !.version = None, !.workingState = None]

resetValues(r) ==
    [r EXCEPT !.alarm = None, !.balanceState = None,
              !.cellV = [i \in 1..16 |-> IF i <= 11 /\ Len(r.cellV) > 0 THEN None ELSE @[i]],
              !.chargeNumber = None, !.chargingA = None, !.completeAh = None,
              !.designedAh = None, !.dischargeNumber = None,
              !.dischargingA = None, !.loadA = None, !.remainingAh = None,
              !.soc = None,
              !.tempC = [i \in 1..4 |-> IF Len(r.tempC) > 0 THEN None ELSE @[i]],
              !.totalV = None, !.version = None, !.workingState = None]

\* ------------------------------------------------------------ frames
\* a realtime frame as the device encodes it: cell 0 holds c0 mV and the
\* other ten decoded cells c1 mV each
RealtimeFrame(c0, c1, chg, dis, soc) ==
    << NonHex >> \o HexDigits(0, 2) \o HexDigits(2, 2) \o HexDigits(80, 2)
    \o HexDigits(224, 4) \o HexDigits(0, 14)
    \o HexDigits(c0, 4)
    \o HexDigits(c1, 4) \o HexDigits(c1, 4) \o HexDigits(c1, 4) \o HexDigits(c1, 4)
    \o HexDigits(c1, 4) \o HexDigits(c1, 4) \o HexDigits(c1, 4) \o HexDigits(c1, 4)
    \o HexDigits(c1, 4) \o HexDigits(c1, 4)
    \o HexDigits(0, 20)
    \o HexDigits(chg, 4) \o HexDigits(dis, 4)
    \o HexDigits(65, 2) \o HexDigits(64, 2) \o HexDigits(0, 2) \o HexDigits(0, 2)
    \o HexDigits(61443, 4) \o HexDigits(0, 2) \o HexDigits(0, 4)
    \o HexDigits(7, 4) \o HexDigits(9, 4) \o HexDigits(soc, 2)
    \o HexDigits(0, 2) \o << NonHex >>

\* a capacity frame as the device encodes it (1/10 Ah)
CapacityFrame(rem, full, des) ==
    << NonHex >> \o HexDigits(0, 2) \o HexDigits(16, 2) \o HexDigits(49, 2)
    \o HexDigits(14, 4) \o HexDigits(0, 4)
    \o HexDigits(rem, 4) \o HexDigits(full, 4) \o HexDigits(des, 4)
    \o HexDigits(0, 2) \o << NonHex >>

\* the buffer with the character at Python index p made unparseable
Garble(data, p) == [data EXCEPT ![p + 1] = NonHex]

\* the frames the device sends in the driver's specification
RtGood == RealtimeFrame(3300, 3300, 150, 0, 87)
RtZero == RealtimeFrame(0, 0, 0, 120, 50)
RtBad == Garble(RtGood, 90)
CapGood == CapacityFrame(800, 1000, 1000)
Short == HexDigits(0, 20)
DriverFrames == << RtGood, CapGood, RtZero, RtBad, Short >>
\* the indices of the well-formed frames among them
GoodRealtime == {1, 3}
GoodCapacity == {2}

\* ------------------------------------------------------------ the matchers
\* a local_name pattern "p*" matches the names that start with p; names
\* are sequences of characters
GlobPrefix(p, name) == Len(p) <= Len(name) /\ SubSeq(name, 1, Len(p)) = p

\* BMS.matcher_dict_list() of the Supervolt plugin
SupervoltMatchers ==
    << [local_name |-> << "l", "i", "b", "a", "t", "t" >>, connectable |-> TRUE] >>

\* matcher lists a plugin class may declare
MatcherLists ==
    { SupervoltMatchers,
      << [local_name |-> << "l", "i", "b" >>, connectable |-> FALSE] >>,
      << [local_name |-> << "S", "P" >>, connectable |-> TRUE],
         [local_name |-> << "l", "i", "b", "a", "t", "t", "B" >>, connectable |-> FALSE] >> }

\* the advertisements handed to the config flow: local name, connectable
Advertisements ==
    [ name : { << "l", "i", "b", "a", "t", "t", "A" >>,
               << "l", "i", "b", "a", "t", "t", "B" >>,
               << "l", "i", "b", "X" >>,
               << "S", "P", "0", "5" >>,
               << "x" >> },
      connectable : BOOLEAN ]

\* one matcher against an advertisement: a connectable matcher needs a
\* connectable advertisement, the local name must match the pattern
MatcherMatches(m, adv) ==
    /\ m.connectable => adv.connectable
    /\ GlobPrefix(m.local_name, adv.name)

\* BaseBMS.supported(discovery_info) of a class with matcher list ml
supported(ml, adv) == \E j \in 1..Len(ml) : MatcherMatches(ml[j], adv)

\* the loop of ConfigFlow._device_supported taken from the end
RECURSIVE device_supported_last(_, _, _)
device_supported_last(types, adv, t) ==
    IF t > Len(types) THEN None
    ELSE IF supported(types[Len(types) + 1 - t], adv) THEN Some(Len(types) + 1 - t)
    ELSE device_supported_last(types, adv, t + 1)

\* ConfigFlow._device_supported from the t-th type of BmsTypes on: the
\* first type whose class reports the advertisement supported, else None
RECURSIVE device_supported(_, _, _)
device_supported(types, adv, t) ==
    IF t > Len(types) THEN None
    ELSE IF supported(types[t], adv) THEN Some(t)
    ELSE device_supported(types, adv, t + 1)

\* the config flow before any advertisement, over the types in types
NewFlow(types) == [types |-> types, adv |-> None, out |-> None]

\* ------------------------------------------------------------ state
VARIABLES
    now,             \* time.time()
    datas,           \* the SupervoltData objects, by identity
    supervoltDatas,  \* BMS.supervoltDatas: device name -> identity of a record
    bms,             \* the BMS instances: name, supervoltData, _client,
                     \* is_connected, the subscription, _data_event
    pc,              \* where the poll of instance 1 is suspended
    poll,            \* what the current poll of instance 1 has done so far
    evtBy,           \* which notification set the _data_event of instance 1
    rx,              \* frames the device has sent so far
    outcome,         \* how the last poll ended: "none", "returned", "raised"
    ret,             \* what it returned
    last,            \* the last operation applied directly to a record
    flow,            \* the config flow: the BMS types, the last advertisement
                     \* handed to _device_supported and what it returned
    voltAt           \* when the totalV held by the record of instance 1 was
                     \* assigned by parse, None after a reset

vars ==
    << now, datas, supervoltDatas, bms, pc, poll, evtBy, rx, outcome, ret, last, flow,
       voltAt >>

\* the time the module was loaded: SupervoltData.lastUpdatetime of the class
LoadTime == 0

Names == {"libattA", "libattB"}

\* the record of instance i
Rec(i) == datas[bms[i].data]

\* a poll that has done nothing yet; n counts the polls started, prior
\* tells whether an earlier poll met a failure or a timeout, had whether
\* an earlier poll returned a reading
NewPoll(n, prior, had) ==
    [ n |-> n, prior |-> prior, had |-> had, cmds |-> 0, log |-> << >>, wake |-> << >>,
      discCalls |-> 0, xDisc |-> 0, didReset |-> FALSE, held |-> FALSE,
      fails |-> {}, stale |-> FALSE ]

\* what released a wait: the notification that set the event (the poll
\* and the number of commands written when it arrived, or between polls,
\* and the frame it carried), or the timeout
Stamp1(n, c, idle, f) ==
    [n |-> n, cmds |-> c, idle |-> idle, f |-> f, timeout |-> FALSE]
TimedOut == [n |-> 0, cmds |-> 0, idle |-> FALSE, f |-> 0, timeout |-> TRUE]

\* one SupervoltData object made when the class is defined and handed to
\* every instance
NewBMSRecord_shared(name) == 1

\* BMS.__init__: the record registered for the name, else a new one
NewBMSRecord(name) ==
    IF name \in DOMAIN supervoltDatas THEN supervoltDatas[name]
    ELSE Len(datas) + 1

BMSInit(name, data) ==
    [ name |-> name, data |-> data, client |-> FALSE, connected |-> FALSE,
      notify |-> FALSE, event |-> FALSE ]

\* no operation applied yet
NoOp == [op |-> "none", i |-> 0, k |-> 0, before |-> None, out |-> None, t |-> 0]

InitBase ==
    /\ now = LoadTime
    /\ datas = << NewData(LoadTime) >>
    /\ supervoltDatas = << >>
    /\ bms = << BMSInit("libattA", 1) >>
    /\ pc = "idle"
    /\ poll = NewPoll(0, FALSE, FALSE)
    /\ evtBy = None
    /\ rx = 0
    /\ outcome = "none"
    /\ ret = None
    /\ last = NoOp
    /\ voltAt = None

\* the integration with the Supervolt plugin as every type
Init == InitBase /\ flow = NewFlow([t \in 1..NTypes |-> SupervoltMatchers])

\* ------------------------------------------------------------ the driver
\* BaseBMS.calc_values: power and the charging flag, from the fields present
calc_values(d) ==
    [ base |-> d,
      power |-> IF IsSet(d.voltage) /\ IsSet(d.current)
                THEN Some(d.voltage[1] * d.current[1]) ELSE None,
      battery_charging |-> IF IsSet(d.current) THEN Some(d.current[1] > 0) ELSE None ]

\* the end of async_update at time t, after the try block: getData, the
\* assertion, calc_values, return
\* getData's dictionary built and returned without the test of line 261
\* and the assertion of line 469
Finish_noAssert(t) ==
    /\ pc' = "idle"
    /\ rx' = rx
    /\ outcome' = "returned"
    /\ ret' = Some(calc_values(
                [ voltage |-> Rec(1).totalV, delta_voltage |-> Rec(1).totalV,
                  current |-> Rec(1).loadA, battery_level |-> Rec(1).soc,
                  cycle_capacity |-> Rec(1).remainingAh, cell_count |-> 4,
                  temperature |-> Rec(1).tempC[1],
                  cell_voltages |-> SubSeq(Rec(1).cellV, 1, 4) ]))

Finish(t) ==
    /\ pc' = "idle"
    /\ rx' = rx
    /\ LET d == getData(Rec(1), t)
       IN  IF d = None
           THEN outcome' = "raised" /\ ret' = None
           ELSE outcome' = "returned" /\ ret' = Some(calc_values(d[1]))

\* StartExchange without the call of resetValues
StartExchange_noReset(p, b) ==
    /\ datas' = datas
    /\ voltAt' = voltAt
    /\ poll' = [p EXCEPT !.didReset = TRUE, !.held = TRUE]
    /\ bms' = b
    /\ pc' = "write1"

\* resetValues and the first write_gatt_char, reached with self._client set
StartExchange(p, b) ==
    /\ datas' = [datas EXCEPT ![bms[1].data] = resetValues(@)]
    /\ voltAt' = None
    /\ poll' = [p EXCEPT !.didReset = TRUE, !.held = TRUE]
    /\ bms' = b
    /\ pc' = "write1"

\* _connect entered on an instance whose client is connected, connecting
\* all the same
connect_always(b) == [b |-> [b EXCEPT !.client = TRUE], await |-> TRUE]

\* _connect up to its first suspension on instance b: the client is
\* created if there is none; await tells whether connect() is awaited,
\* which it is unless the client reports connected
connect(b) ==
    [b |-> [b EXCEPT !.client = TRUE], await |-> ~b.client \/ ~b.connected]

\* async_update up to its first suspension: _connect creates the client,
\* and connects unless the client reports connected
Update ==
    /\ pc = "idle"
    /\ poll.n < MaxPolls
    /\ LET p == [NewPoll(poll.n + 1, poll.prior \/ poll.fails # {},
                            poll.had \/ outcome = "returned")
                    EXCEPT !.stale = bms[1].event]
           c == connect(bms[1])
           b == [bms EXCEPT ![1] = c.b]
       IN  IF c.await
           THEN /\ pc' = "connect"
                /\ poll' = p
                /\ bms' = b
                /\ UNCHANGED << datas, voltAt >>
           ELSE StartExchange(p, b)
    /\ outcome' = "none"
    /\ ret' = None
    /\ UNCHANGED << now, supervoltDatas, evtBy, rx, last, flow >>

\* await self._client.connect() returns; start_notify is called
ConnectOk ==
    /\ pc = "connect"
    /\ bms' = [bms EXCEPT ![1].connected = TRUE]
    /\ poll' = [poll EXCEPT !.held = TRUE]
    /\ pc' = "start_notify"
    /\ UNCHANGED << now, datas, supervoltDatas, evtBy, rx, outcome, ret, last, flow, voltAt >>

\* await self._client.connect() raises
ConnectFail ==
    /\ pc = "connect"
    /\ poll' = [poll EXCEPT !.fails = @ \cup {"connect"}]
    /\ Finish(now)
    /\ UNCHANGED << now, datas, supervoltDatas, bms, evtBy, last, flow, voltAt >>

\* start_notify returns: the subscription is installed, _connect returns
StartNotifyOk ==
    /\ pc = "start_notify"
    /\ bms[1].connected
    /\ StartExchange(poll, [bms EXCEPT ![1].notify = TRUE])
    /\ UNCHANGED << now, supervoltDatas, evtBy, rx, outcome, ret, last, flow >>

\* start_notify raises
StartNotifyFail ==
    /\ pc = "start_notify"
    /\ poll' = [poll EXCEPT !.fails = @ \cup {"start_notify"}]
    /\ Finish(now)
    /\ UNCHANGED << now, datas, supervoltDatas, bms, evtBy, last, flow, voltAt >>

\* write_gatt_char returns; asyncio.wait_for(self._wait_event(), ...) starts
WriteOk ==
    /\ pc \in {"write1", "write2"}
    /\ bms[1].connected
    /\ poll' = [poll EXCEPT !.cmds = @ + 1]
    /\ pc' = IF pc = "write1" THEN "wait1" ELSE "wait2"
    /\ UNCHANGED << now, datas, supervoltDatas, bms, evtBy, rx, outcome, ret, last, flow, voltAt >>

\* write_gatt_char raises
WriteFail ==
    /\ pc \in {"write1", "write2"}
    /\ poll' = [poll EXCEPT !.fails = @ \cup {pc}]
    /\ Finish(now)
    /\ UNCHANGED << now, datas, supervoltDatas, bms, evtBy, last, flow, voltAt >>

\* _wait_event of the first command: the event is set, wait() returns, the
\* event is cleared; the second write_gatt_char is called
Wait1Done ==
    /\ pc = "wait1"
    /\ bms[1].event
    /\ bms' = [bms EXCEPT ![1].event = FALSE]
    /\ poll' = [poll EXCEPT !.wake = Append(@, evtBy[1])]
    /\ evtBy' = None
    /\ pc' = "write2"
    /\ UNCHANGED << now, datas, supervoltDatas, rx, outcome, ret, last, flow, voltAt >>

\* BMS.disconnect as called after the second wait, up to its suspension;
\* e is _data_event before the call
Disconnect(e) ==
    IF bms[1].client /\ bms[1].connected
    THEN /\ bms' = [bms EXCEPT ![1].event = FALSE]
         /\ evtBy' = None
         /\ pc' = "stop_notify"
         /\ UNCHANGED << rx, outcome, ret, last >>
    ELSE /\ bms' = [bms EXCEPT ![1].event = e]
         /\ evtBy' = IF e THEN evtBy ELSE None
         /\ Finish(now)

\* _wait_event of the second command, then await self.disconnect()
Wait2Done ==
    /\ pc = "wait2"
    /\ bms[1].event
    /\ poll' = [poll EXCEPT !.wake = Append(@, evtBy[1]), !.discCalls = @ + 1]
    /\ Disconnect(FALSE)
    /\ UNCHANGED << now, datas, supervoltDatas, last, flow, voltAt >>

\* asyncio.wait_for raises TimeoutError after BAT_TIMEOUT without the event
\* the timeout of the first wait caught inside the try block, so that
\* the poll goes on to the second write_gatt_char
Timeout_goesOn ==
    /\ pc \in {"wait1", "wait2"}
    /\ ~bms[1].event
    /\ now' = now + BAT_TIMEOUT
    /\ poll' = [poll EXCEPT !.wake = Append(@, TimedOut),
                            !.fails = @ \cup {pc}]
    /\ IF pc = "wait1"
       THEN pc' = "write2" /\ UNCHANGED << rx, outcome, ret >>
       ELSE Finish(now + BAT_TIMEOUT)
    /\ UNCHANGED << datas, supervoltDatas, bms, evtBy, last, flow, voltAt >>

\* self._wait_event() awaited without asyncio.wait_for: no timeout
Timeout_never ==
    /\ pc = "no wait_for"
    /\ UNCHANGED vars

Timeout ==
    /\ pc \in {"wait1", "wait2"}
    /\ ~bms[1].event
    /\ now' = now + BAT_TIMEOUT
    /\ poll' = [poll EXCEPT !.wake = Append(@, TimedOut),
                            !.fails = @ \cup {pc}]
    /\ Finish(now + BAT_TIMEOUT)
    /\ UNCHANGED << datas, supervoltDatas, bms, evtBy, last, flow, voltAt >>

\* stop_notify returns; self._client.disconnect() is called
StopNotifyOk ==
    /\ pc = "stop_notify"
    /\ bms[1].connected
    /\ bms' = [bms EXCEPT ![1].notify = FALSE]
    /\ poll' = [poll EXCEPT !.xDisc = @ + 1]
    /\ pc' = "disconnect"
    /\ UNCHANGED << now, datas, supervoltDatas, evtBy, rx, outcome, ret, last, flow, voltAt >>

\* stop_notify raises: BleakError is logged by disconnect, anything else by
\* async_update; self._client.disconnect() is not called
StopNotifyFail ==
    /\ pc = "stop_notify"
    /\ poll' = [poll EXCEPT !.fails = @ \cup {"stop_notify"}]
    /\ Finish(now)
    /\ UNCHANGED << now, datas, supervoltDatas, bms, evtBy, last, flow, voltAt >>

\* self._client.disconnect() returns
DisconnectOk ==
    /\ pc = "disconnect"
    /\ bms' = [bms EXCEPT ![1].connected = FALSE, ![1].notify = FALSE]
    /\ Finish(now)
    /\ UNCHANGED << now, datas, supervoltDatas, poll, evtBy, last, flow, voltAt >>

\* self._client.disconnect() raises
DisconnectFail ==
    /\ pc = "disconnect"
    /\ poll' = [poll EXCEPT !.fails = @ \cup {"disconnect"}]
    /\ Finish(now)
    /\ UNCHANGED << now, datas, supervoltDatas, bms, evtBy, last, flow, voltAt >>

\* parse of data into record r gets as far as self.totalV = 0 (line 111)
AssignsTotal(r, data) ==
    Len(data) = REALTIME_LEN /\ PutHeader(Run(r), data).ok

\* _notification_handler of instance i with buffer data
Handler(i, data) ==
    /\ datas' = [datas EXCEPT ![bms[i].data] = parse(@, data, now)]
    /\ bms' = [bms EXCEPT ![i].event = TRUE]

\* the device sends frame k: with the subscription installed the handler
\* runs, otherwise the frame is dropped
Notify(k) ==
    /\ bms[1].connected
    /\ rx < MaxRx
    /\ rx' = rx + 1
    /\ IF bms[1].notify
       THEN /\ Handler(1, DriverFrames[k])
            /\ evtBy' = Some(Stamp1(poll.n, poll.cmds, pc = "idle", k))
            /\ voltAt' = IF AssignsTotal(Rec(1), DriverFrames[k]) THEN Some(now)
                         ELSE voltAt
       ELSE UNCHANGED << datas, bms, evtBy, voltAt >>
    /\ poll' = IF pc = "idle" THEN poll
               ELSE [poll EXCEPT !.log = Append(@, [c |-> poll.cmds, f |-> k,
                                                     d |-> bms[1].notify])]
    /\ UNCHANGED << now, supervoltDatas, pc, outcome, ret, last, flow >>

\* the link drops: the client reports not connected (_on_disconnect logs)
LinkLost ==
    /\ bms[1].connected
    /\ bms' = [bms EXCEPT ![1].connected = FALSE, ![1].notify = FALSE]
    /\ poll' = IF pc = "idle" THEN poll ELSE [poll EXCEPT !.fails = @ \cup {"link"}]
    /\ UNCHANGED << now, datas, supervoltDatas, pc, evtBy, rx, outcome, ret, last, flow, voltAt >>

\* time passes between polls
Tick ==
    /\ pc = "idle"
    /\ now + TickStep <= MaxTime
    /\ now' = now + TickStep
    /\ UNCHANGED << datas, supervoltDatas, bms, pc, poll, evtBy, rx, outcome, ret, last, flow, voltAt >>

Next ==
    \/ Update
    \/ ConnectOk
    \/ ConnectFail
    \/ StartNotifyOk
    \/ StartNotifyFail
    \/ WriteOk
    \/ WriteFail
    \/ Wait1Done
    \/ Wait2Done
    \/ Timeout
    \/ StopNotifyOk
    \/ StopNotifyFail
    \/ DisconnectOk
    \/ DisconnectFail
    \/ \E k \in 1..Len(DriverFrames) : Notify(k)
    \/ LinkLost
    \/ Tick

Spec == Init /\ [][Next]_vars

\* the steps by which a poll in progress goes on: a transport call
\* returns or raises, a wait is released or times out
PollStep ==
    \/ ConnectOk \/ ConnectFail
    \/ StartNotifyOk \/ StartNotifyFail
    \/ WriteOk \/ WriteFail
    \/ Wait1Done \/ Wait2Done \/ Timeout
    \/ StopNotifyOk \/ StopNotifyFail
    \/ DisconnectOk \/ DisconnectFail

\* the driver when every transport call eventually returns or raises and
\* asyncio.wait_for eventually times out a wait that nothing releases
SpecLive == Spec /\ WF_vars(PollStep)

\* ------------------------------------------------------------ the record alone
\* the buffers handed to parse in the record's specification
DataFrames ==
    << RtGood, RtZero,
       RealtimeFrame(3300, 3300, 50000, 50001, 87),
       RealtimeFrame(3300, 0, 65535, 120, 10),
       CapGood, CapacityFrame(5, 1000, 1000),
       << >>, Short,
       SubSeq(RtGood, 1, 127), RtGood \o << 0 >>,
       SubSeq(CapGood, 1, 29), CapGood \o << 0 >>,
       RtBad, Garble(RtGood, 30), Garble(CapGood, 20),
       Garble(RealtimeFrame(3200, 3200, 0, 51000, 20), 124),
       Garble(RealtimeFrame(3300, 3300, 0, 0, 87), 94),
       Garble(RtZero, 8), Garble(CapacityFrame(5, 1000, 1000), 4) >>

\* supervoltData.parse(DataFrames[k]) on the record of instance 1
DataParse(k) ==
    /\ datas' = [datas EXCEPT ![bms[1].data] = parse(@, DataFrames[k], now)]
    /\ last' = [op |-> "parse", i |-> 1, k |-> k, before |-> Some(Rec(1)), out |-> None, t |-> now]
    /\ UNCHANGED << now, supervoltDatas, bms, pc, poll, evtBy, rx, outcome, ret, flow, voltAt >>

\* supervoltData.resetValues()
DataReset ==
    /\ datas' = [datas EXCEPT ![bms[1].data] = resetValues(@)]
    /\ last' = [op |-> "resetValues", i |-> 1, k |-> 0, before |-> Some(Rec(1)), out |-> None, t |-> now]
    /\ UNCHANGED << now, supervoltDatas, bms, pc, poll, evtBy, rx, outcome, ret, flow, voltAt >>

\* supervoltData.getData()
DataGet ==
    /\ last' = [op |-> "getData", i |-> 1, k |-> 0, before |-> Some(Rec(1)),
                out |-> getData(Rec(1), now), t |-> now]
    /\ UNCHANGED << now, datas, supervoltDatas, bms, pc, poll, evtBy, rx, outcome, ret, flow, voltAt >>

\* time passes
DataTick ==
    /\ now + TickStep <= MaxTime
    /\ now' = now + TickStep
    /\ UNCHANGED << datas, supervoltDatas, bms, pc, poll, evtBy, rx, outcome, ret, last, flow, voltAt >>

DataNext ==
    \/ \E k \in 1..Len(DataFrames) : DataParse(k)
    \/ DataReset
    \/ DataGet
    \/ DataTick

SpecData == Init /\ [][DataNext]_vars

\* ------------------------------------------------------------ instances
\* the buffers delivered in the instances' specification
InstFrames == << RtGood, CapGood >>

\* BMS(ble_device) for a device called name
NewBMS(name) ==
    /\ Len(bms) < MaxInst
    /\ LET id == NewBMSRecord(name)
       IN  /\ bms' = Append(bms, BMSInit(name, id))
           /\ datas' = IF id > Len(datas) THEN Append(datas, NewData(LoadTime))
                       ELSE datas
    /\ last' = [op |-> "init", i |-> Len(bms) + 1, k |-> 0, before |-> None, out |-> None, t |-> now]
    /\ UNCHANGED << now, supervoltDatas, pc, poll, evtBy, rx, outcome, ret, flow, voltAt >>

\* _notification_handler of instance i with InstFrames[k]
InstNotify(i, k) ==
    /\ Handler(i, InstFrames[k])
    /\ last' = [op |-> "parse", i |-> i, k |-> k, before |-> None, out |-> None, t |-> now]
    /\ UNCHANGED << now, supervoltDatas, pc, poll, evtBy, rx, outcome, ret, flow, voltAt >>

\* supervoltData.resetValues() of instance i
InstReset(i) ==
    /\ datas' = [datas EXCEPT ![bms[i].data] = resetValues(@)]
    /\ last' = [op |-> "resetValues", i |-> i, k |-> 0, before |-> None, out |-> None, t |-> now]
    /\ UNCHANGED << now, supervoltDatas, bms, pc, poll, evtBy, rx, outcome, ret, flow, voltAt >>

InstNext ==
    \/ \E name \in Names : NewBMS(name)
    \/ \E i \in 1..Len(bms), k \in 1..Len(InstFrames) : InstNotify(i, k)
    \/ \E i \in 1..Len(bms) : InstReset(i)
    \/ DataTick

SpecInst == Init /\ [][InstNext]_vars

\* ------------------------------------------------------------ the config flow
\* the enumeration BmsTypes is any assignment of matcher lists to types
FlowInit ==
    /\ InitBase
    /\ \E types \in [1..NTypes -> MatcherLists] : flow = NewFlow(types)

\* self._device_supported(discovery_info), as async_step_bluetooth and
\* async_step_user call it
DeviceSupported(adv) ==
    /\ flow' = [flow EXCEPT !.adv = Some(adv),
                            !.out = device_supported(flow.types, adv, 1)]
    /\ UNCHANGED << now, datas, supervoltDatas, bms, pc, poll, evtBy, rx, outcome, ret, last, voltAt >>

FlowNext == \E adv \in Advertisements : DeviceSupported(adv)

SpecFlow == FlowInit /\ [][FlowNext]_vars

\* ------------------------------------------------------------ properties
\* a poll has ended and none is in progress
PollDone == pc = "idle" /\ poll.n > 0

\* no connect, start_notify, write, stop_notify or disconnect of the poll
\* failed and the link did not drop
TransportOk ==
    poll.fails \cap {"connect", "start_notify", "write1", "write2",
                     "stop_notify", "disconnect", "link"} = {}

\* the device sent exactly one frame per command: a well-formed realtime
\* frame after the first, a well-formed capacity frame after the second
AnsweredBoth ==
    /\ Len(poll.log) = 2
    /\ poll.log[1].c = 1 /\ poll.log[1].f \in GoodRealtime
    /\ poll.log[2].c = 2 /\ poll.log[2].f \in GoodCapacity

\* no frame reached the handler during the poll
NoFrame == \A j \in 1..Len(poll.log) : ~poll.log[j].d

\* the poll returned a reading with total voltage, state of charge and
\* remaining capacity set
Populated ==
    /\ outcome = "returned"
    /\ IsSet(ret[1].base.voltage)
    /\ IsSet(ret[1].base.battery_level)
    /\ IsSet(ret[1].base.cycle_capacity)

\* every character of s is a hex digit
AllHex(s) == \A i \in 1..Len(s) : s[i] \in 0..15

\* C1: a poll in which no transport operation fails and the device answers
\* the first command with a well-formed realtime frame and the second with
\* a well-formed capacity frame returns a reading with total voltage, state
\* of charge and remaining capacity set, and client.disconnect() is called
\* exactly once in it.
C1_Claim ==
    (PollDone /\ poll.fails = {} /\ AnsweredBoth)
        => (Populated /\ poll.xDisc = 1)

\* C2: every poll that held a connection has called BMS.disconnect by the
\* time it ends, whichever way it ends.
C2_Claim == (PollDone /\ poll.held) => poll.discCalls >= 1

\* C3: no poll ends by raising to its caller.
C3_Claim == outcome # "raised"

\* C4: getData yields a reading exactly when the record is at most
\* MAX_TIME_S old and totalV has been assigned since the last reset,
\* whatever its value.
C4_Claim ==
    last.op = "getData" =>
        (IsSet(last.out) <=>
            (last.t - last.before[1].lastUpdatetime <= MAX_TIME_S
             /\ IsSet(last.before[1].totalV)))

\* C5: parse of a buffer whose length is neither 128 nor 30 (the empty
\* buffer included) leaves every field and lastUpdatetime as they were.
C5_WrongLengthIgnored ==
    (last.op = "parse" /\ Len(DataFrames[last.k]) \notin {REALTIME_LEN, CAPACITY_LEN})
        => Rec(1) = last.before[1]

\* a buffer of 129 bytes has been handed to a record that holds a voltage
C5_Witness ==
    /\ last.op = "parse"
    /\ Len(DataFrames[last.k]) = REALTIME_LEN + 1
    /\ IsSet(Rec(1).totalV)
    /\ Rec(1).lastUpdatetime < now

\* C6 as stated: a poll whose connect or first write fails, or in which no
\* frame is received, does not return a reading.
C6_Claim ==
    (PollDone /\ ("connect" \in poll.fails \/ "write1" \in poll.fails \/ NoFrame))
        => outcome # "returned"

\* C6 amended: a poll that got as far as resetting the store and in which
\* no frame reached the handler yields no data and returns no reading.
C6_ResetThenNoData ==
    (PollDone /\ poll.didReset /\ NoFrame)
        => (outcome = "raised" /\ ret = None)

\* after a poll that returned a reading, a poll whose first write failed
\* has ended while the record's timestamp is still fresh
C6_Witness ==
    /\ PollDone /\ poll.didReset /\ NoFrame
    /\ poll.had
    /\ "write1" \in poll.fails
    /\ now - Rec(1).lastUpdatetime <= MAX_TIME_S
    /\ outcome = "raised"

\* the device answered every command the poll wrote, the first of them
\* with the realtime frame RtGood and the second with CapGood
AnsweredEach ==
    /\ poll.cmds >= 1
    /\ Len(poll.log) = poll.cmds
    /\ \A j \in 1..Len(poll.log) : poll.log[j].c = j /\ poll.log[j].f = j

\* C7: after a poll with a failed transport operation or a timeout, a poll
\* in which every transport operation succeeds and the device answers the
\* commands with well-formed frames returns a populated reading.
C7_Claim ==
    (PollDone /\ poll.prior /\ TransportOk /\ AnsweredEach) => Populated

\* C8: an instance constructed for the name of an earlier instance that has
\* decoded frames holds that instance's record.
C8_Claim ==
    \A i \in 1..Len(bms) :
        (/\ last.op = "init" /\ i < last.i
         /\ bms[i].name = bms[last.i].name
         /\ Rec(i) # NewData(LoadTime))
            => (bms[last.i].data = bms[i].data /\ Rec(last.i) = Rec(i))

\* C9: a wait released by a notification is released by one that arrived
\* during the same poll, and the second wait by one that arrived after the
\* second command was written.
C9_Claim ==
    \A w \in 1..Len(poll.wake) :
        ~poll.wake[w].timeout =>
            /\ poll.wake[w].n = poll.n
            /\ ~poll.wake[w].idle
            /\ (w = 2 => poll.wake[w].cmds = 2)

\* C10: a stored charging or discharging current is never above 500 A, and
\* a realtime frame decoded as far as a current above 500 A stores 0.
C10_CurrentsClamped ==
    /\ IsSet(Rec(1).chargingA) => Rec(1).chargingA[1] <= CURRENT_LIMIT
    /\ IsSet(Rec(1).dischargingA) => Rec(1).dischargingA[1] <= CURRENT_LIMIT
    /\ \A k \in 1..Len(DataFrames) :
        (/\ last.op = "parse" /\ last.k = k
         /\ Len(DataFrames[k]) = REALTIME_LEN
         /\ AllHex(Slice(DataFrames[k], 1, 11))
         /\ AllHex(Slice(DataFrames[k], 25, 69))
         /\ AllHex(Slice(DataFrames[k], 89, 93))
         /\ Field(DataFrames[k], 89, 93)[1] > CURRENT_LIMIT)
            => Rec(1).chargingA = Some(0)

\* a frame whose charging field reads 655.35 A has been decoded over a
\* record that held a charging current, which is now 0
C10_Witness ==
    /\ last.op = "parse"
    /\ Len(DataFrames[last.k]) = REALTIME_LEN
    /\ AllHex(Slice(DataFrames[last.k], 89, 93))
    /\ Field(DataFrames[last.k], 89, 93)[1] > CURRENT_LIMIT
    /\ IsSet(last.before[1].chargingA) /\ last.before[1].chargingA[1] > 0
    /\ Rec(1).chargingA = Some(0)
    /\ IsSet(Rec(1).dischargingA) /\ Rec(1).dischargingA[1] > 0

\* C11: in every state of the record, after any sequence of frames and
\* resets, a record that holds a charging and a discharging current holds
\* the pack current -chargingA + dischargingA.
C11_Claim ==
    (IsSet(Rec(1).chargingA) /\ IsSet(Rec(1).dischargingA))
        => /\ IsSet(Rec(1).loadA)
           /\ Rec(1).loadA[1] = Rec(1).dischargingA[1] - Rec(1).chargingA[1]

\* the types whose class reports the last advertisement supported
Supporting == { t \in 1..Len(flow.types) : supported(flow.types[t], flow.adv[1]) }

\* C12: _device_supported returns the first type, in the order of
\* BmsTypes, whose class reports the advertisement supported, none when no
\* class does, and no instance gets a client or a connection by it.
C12_FirstSupported ==
    IsSet(flow.adv) =>
        /\ Supporting = {} => flow.out = None
        /\ Supporting # {} =>
            /\ IsSet(flow.out)
            /\ flow.out[1] \in Supporting
            /\ \A t \in Supporting : flow.out[1] <= t
        /\ \A i \in 1..Len(bms) : ~bms[i].client /\ ~bms[i].connected

\* an advertisement that the first type does not support and two later
\* types do has been matched to the earlier of the two
C12_Witness ==
    /\ IsSet(flow.adv)
    /\ Cardinality(Supporting) >= 2
    /\ 1 \notin Supporting
    /\ flow.out = Some(2)

\* C13: a poll that returns a reading reads the record when it is at most
\* MAX_TIME_S old and holds a total voltage, and returns that voltage; a
\* poll that reads the record when it is older or holds no total voltage
\* returns no reading.
C13_ReturnedIsValid ==
    [][ (pc # "idle" /\ pc' = "idle") =>
          /\ outcome' = "returned" =>
                /\ now' - Rec(1)'.lastUpdatetime <= MAX_TIME_S
                /\ IsSet(Rec(1)'.totalV)
                /\ IsSet(ret')
                /\ ret'[1].base.voltage = Rec(1)'.totalV
          /\ (now' - Rec(1)'.lastUpdatetime > MAX_TIME_S \/ ~IsSet(Rec(1)'.totalV)) =>
                (outcome' = "raised" /\ ret' = None) ]_vars

\* a second poll whose connect failed has returned the voltage of a record
\* that is exactly MAX_TIME_S old
C13_Witness ==
    /\ PollDone /\ poll.n = 2
    /\ "connect" \in poll.fails
    /\ outcome = "returned"
    /\ now - Rec(1).lastUpdatetime = MAX_TIME_S
    /\ ret[1].base.voltage = Rec(1).totalV

\* C14: getData called after resetValues with no frame decoded in between
\* yields no data, whatever the record held and however old it is.
C14_ResetThenGet ==
    [][ (last.op = "resetValues" /\ last'.op = "getData") => last'.out = None ]_vars

\* a record stamped at the current time, later than the load time, has
\* been reset and then read: it holds a frame address and nothing that
\* resetValues clears
C14_Witness ==
    /\ last.op = "getData"
    /\ last.before[1] = Rec(1)
    /\ Rec(1).lastUpdatetime = now /\ now > LoadTime
    /\ IsSet(Rec(1).address)
    /\ ~IsSet(Rec(1).totalV) /\ ~IsSet(Rec(1).remainingAh) /\ ~IsSet(Rec(1).soc)
    /\ last.out = None

\* C15: within a poll the steps come in the order connect, reset of the
\* record, first write, first wait, second write, second wait; no command
\* is written twice, and the second command is written only after a
\* notification released the first wait, never after its timeout.
C15_StepOrder ==
    /\ pc \in {"connect", "start_notify"} =>
            (~poll.didReset /\ poll.cmds = 0 /\ poll.wake = << >>)
    /\ pc = "write1" => (poll.didReset /\ poll.cmds = 0 /\ poll.wake = << >>)
    /\ pc = "wait1" => (poll.didReset /\ poll.cmds = 1 /\ poll.wake = << >>)
    /\ pc = "write2" => (poll.cmds = 1 /\ Len(poll.wake) = 1)
    /\ pc = "wait2" => (poll.cmds = 2 /\ Len(poll.wake) = 1)
    /\ pc \in {"stop_notify", "disconnect"} =>
            (poll.cmds = 2 /\ Len(poll.wake) = 2 /\ ~poll.wake[2].timeout)
    /\ poll.cmds <= 2
    /\ poll.cmds >= 1 => (poll.didReset /\ bms[1].client)
    /\ (pc \in {"write2", "wait2"} \/ poll.cmds = 2) =>
            (Len(poll.wake) >= 1 /\ ~poll.wake[1].timeout)
    /\ (Len(poll.wake) >= 1 /\ poll.wake[1].timeout) => (poll.cmds = 1 /\ pc = "idle")

\* a poll has written both commands, each wait was released by a
\* notification, and BMS.disconnect is under way
C15_Witness ==
    /\ pc = "disconnect"
    /\ poll.didReset
    /\ poll.cmds = 2
    /\ Len(poll.wake) = 2
    /\ ~poll.wake[1].timeout /\ ~poll.wake[2].timeout

\* C16: _connect on an instance whose client reports connected awaits
\* neither connect nor start_notify and leaves the client, the connection,
\* the subscription and the event as they are, so that a second call
\* finds what the first found; the poll goes straight on to the reset and
\* the first write.
C16_ConnectIdempotent ==
    /\ [](bms[1].client /\ bms[1].connected =>
            /\ ~connect(bms[1]).await
            /\ connect(bms[1]).b = bms[1]
            /\ connect(connect(bms[1]).b) = connect(bms[1]))
    /\ [][ (pc = "idle" /\ pc' # "idle" /\ bms[1].client /\ bms[1].connected) =>
            (pc' = "write1" /\ bms' = bms /\ evtBy' = evtBy) ]_vars

\* the second poll has started on the connection the first one left open
\* with its subscription, and is at its first write
C16_Witness ==
    /\ poll.n = 2
    /\ pc = "write1"
    /\ bms[1].client /\ bms[1].connected /\ bms[1].notify
    /\ poll.fails = {}

\* the byte regions parse decodes from a 128-byte frame, in the order it
\* decodes them: 1..4 header, 5..15 cells, 16 charging, 17 discharging,
\* 18..21 temperatures, 22..27 states, counters and state of charge
RtRegions ==
    << << 1, 3 >>, << 3, 5 >>, << 5, 7 >>, << 7, 11 >> >>
    \o [i \in 1..11 |-> << 21 + 4 * i, 25 + 4 * i >>]
    \o << << 89, 93 >>, << 93, 97 >> >>
    \o [i \in 1..4 |-> << 95 + 2 * i, 97 + 2 * i >>]
    \o << << 105, 109 >>, << 109, 111 >>, << 111, 115 >>, << 115, 119 >>,
          << 119, 123 >>, << 123, 125 >> >>

\* the same for a 30-byte frame: 1..4 header, 5..7 capacities
CapRegions ==
    << << 1, 3 >>, << 3, 5 >>, << 5, 7 >>, << 7, 11 >>,
       << 15, 19 >>, << 19, 23 >>, << 23, 27 >> >>

\* the first region of data that is not hex text, Len(regions) + 1 if
\* every region is
FirstBad(data, regions) ==
    LET bad == { j \in 1..Len(regions) :
                    ~AllHex(Slice(data, regions[j][1], regions[j][2])) }
    IN  IF bad = {} THEN Len(regions) + 1
        ELSE CHOOSE j \in bad : \A h \in bad : j <= h

\* the integer in region j
RegionInt(data, regions, j) == Field(data, regions[j][1], regions[j][2])

RECURSIVE SumCells(_, _)
\* the sum of the first n cell fields of a 128-byte frame
SumCells(data, n) ==
    IF n = 0 THEN 0 ELSE SumCells(data, n - 1) + RegionInt(data, RtRegions, 4 + n)[1]

\* record b after a 128-byte frame whose first bad region is f: regions
\* before f hold the frame's values, the others what b held; totalV is
\* given
RealtimeUpTo(b, data, f, total) ==
    LET V(j) == RegionInt(data, RtRegions, j)
    IN  [b EXCEPT
            !.address = IF 1 < f THEN V(1) ELSE @,
            !.command = IF 2 < f THEN V(2) ELSE @,
            !.version = IF 3 < f THEN V(3) ELSE @,
            !.length = IF 4 < f THEN V(4) ELSE @,
            !.cellV = [i \in 1..16 |-> IF i <= 11 /\ 4 + i < f THEN V(4 + i) ELSE @[i]],
            !.totalV = total,
            !.chargingA = IF 16 < f THEN Some(Clamp(V(16)[1])) ELSE @,
            !.dischargingA = IF 17 < f THEN Some(Clamp(V(17)[1])) ELSE @,
            !.loadA = IF 17 < f THEN Some(Clamp(V(17)[1]) - Clamp(V(16)[1])) ELSE @,
            !.tempC = [i \in 1..4 |-> IF 17 + i < f THEN Some(V(17 + i)[1] - 40) ELSE @[i]],
            !.workingState = IF 22 < f THEN V(22) ELSE @,
            !.alarm = IF 23 < f THEN V(23) ELSE @,
            !.balanceState = IF 24 < f THEN V(24) ELSE @,
            !.dischargeNumber = IF 25 < f THEN V(25) ELSE @,
            !.chargeNumber = IF 26 < f THEN V(26) ELSE @,
            !.soc = IF 27 < f THEN V(27) ELSE @]

\* the same for a 30-byte frame
CapacityUpTo(b, data, f) ==
    LET V(j) == RegionInt(data, CapRegions, j)
    IN  [b EXCEPT
            !.address = IF 1 < f THEN V(1) ELSE @,
            !.command = IF 2 < f THEN V(2) ELSE @,
            !.version = IF 3 < f THEN V(3) ELSE @,
            !.length = IF 4 < f THEN V(4) ELSE @,
            !.remainingAh = IF 5 < f THEN V(5) ELSE @,
            !.completeAh = IF 6 < f THEN V(6) ELSE @,
            !.designedAh = IF 7 < f THEN V(7) ELSE @]

\* the last operation was parse of a 128-byte frame with a bad region
FailedRealtime ==
    /\ last.op = "parse"
    /\ Len(DataFrames[last.k]) = REALTIME_LEN
    /\ FirstBad(DataFrames[last.k], RtRegions) <= Len(RtRegions)

\* the last operation was parse of a 30-byte frame with a bad region
FailedCapacity ==
    /\ last.op = "parse"
    /\ Len(DataFrames[last.k]) = CAPACITY_LEN
    /\ FirstBad(DataFrames[last.k], CapRegions) <= Len(CapRegions)

\* C17 as stated: after parse of a 128- or 30-byte frame with a bad
\* region, the fields of the regions before it hold the frame's values and
\* every other field, totalV and lastUpdatetime included, what it held;
\* totalV counts as decoded once every cell region is.
C17_Claim ==
    /\ FailedRealtime =>
        LET data == DataFrames[last.k]
            f == FirstBad(data, RtRegions)
        IN  Rec(1) = RealtimeUpTo(last.before[1], data, f,
                        IF f > 15 THEN Some(SumCells(data, 11))
                        ELSE last.before[1].totalV)
    /\ FailedCapacity =>
        Rec(1) = CapacityUpTo(last.before[1], DataFrames[last.k],
                              FirstBad(DataFrames[last.k], CapRegions))

\* C17 amended: as C17, but when the four header regions decode, totalV is
\* the sum of the cell regions before the bad one, 0 when the first cell
\* region is bad.
C17_PartialDecode ==
    /\ FailedRealtime =>
        LET data == DataFrames[last.k]
            f == FirstBad(data, RtRegions)
        IN  Rec(1) = RealtimeUpTo(last.before[1], data, f,
                        IF f <= 4 THEN last.before[1].totalV
                        ELSE IF f > 15 THEN Some(SumCells(data, 11))
                        ELSE Some(SumCells(data, f - 5)))
    /\ FailedCapacity =>
        Rec(1) = CapacityUpTo(last.before[1], DataFrames[last.k],
                              FirstBad(DataFrames[last.k], CapRegions))

\* a frame whose second cell region is bad has been decoded over an older
\* record that held another total voltage: totalV is the first cell alone
C17_Witness ==
    /\ FailedRealtime
    /\ FirstBad(DataFrames[last.k], RtRegions) = 6
    /\ IsSet(last.before[1].totalV)
    /\ Rec(1).totalV = Some(SumCells(DataFrames[last.k], 1))
    /\ Rec(1).totalV # last.before[1].totalV
    /\ Rec(1).lastUpdatetime < now

\* C18: a 30-byte frame that decodes to its end changes the three
\* capacity fields, the four header fields and lastUpdatetime and nothing
\* else; a 128-byte frame that decodes to its end leaves the three
\* capacity fields as they were; either sets lastUpdatetime to the time of
\* the decode.
C18_FrameEffect ==
    /\ (/\ last.op = "parse"
        /\ Len(DataFrames[last.k]) = CAPACITY_LEN
        /\ FirstBad(DataFrames[last.k], CapRegions) > Len(CapRegions))
        => Rec(1) = [CapacityUpTo(last.before[1], DataFrames[last.k], Len(CapRegions) + 1)
                        EXCEPT !.lastUpdatetime = last.t]
    /\ (/\ last.op = "parse"
        /\ Len(DataFrames[last.k]) = REALTIME_LEN
        /\ FirstBad(DataFrames[last.k], RtRegions) > Len(RtRegions))
        => /\ Rec(1).remainingAh = last.before[1].remainingAh
           /\ Rec(1).completeAh = last.before[1].completeAh
           /\ Rec(1).designedAh = last.before[1].designedAh
           /\ Rec(1).lastUpdatetime = last.t

\* a capacity frame has been decoded over an older record that held a
\* realtime reading and another remaining capacity
C18_Witness ==
    /\ last.op = "parse"
    /\ Len(DataFrames[last.k]) = CAPACITY_LEN
    /\ FirstBad(DataFrames[last.k], CapRegions) > Len(CapRegions)
    /\ IsSet(last.before[1].totalV) /\ IsSet(last.before[1].soc)
    /\ IsSet(last.before[1].remainingAh)
    /\ Rec(1).remainingAh # last.before[1].remainingAh
    /\ Rec(1).totalV = last.before[1].totalV
    /\ last.before[1].lastUpdatetime < last.t
    /\ Rec(1).lastUpdatetime = last.t

\* record r holds what decoding data leaves: decoding it again, at the
\* time r is stamped with, changes nothing
Reflects(r, data) == parse(r, data, r.lastUpdatetime) = r

RECURSIVE ApplyLog(_, _, _)
\* record r after the frames of log from the j-th on that reached the
\* handler, decoded in order
ApplyLog(r, log, j) ==
    IF j > Len(log) THEN r
    ELSE ApplyLog(IF log[j].d THEN parse(r, DriverFrames[log[j].f], r.lastUpdatetime)
                  ELSE r, log, j + 1)

\* r without the fields that outlive resetValues
Measured(r) ==
    [ r EXCEPT !.address = None, !.command = None, !.length = None,
               !.lastUpdatetime = 0 ]

\* when a poll that reset the record ends, the record holds the
\* measurements of every frame that reached the handler during the poll,
\* applied in order to the reset record
SnapshotReflectsFrames ==
    [][ (pc # "idle" /\ pc' = "idle" /\ poll'.didReset)
            => Measured(Rec(1)') =
                 Measured(ApplyLog(resetValues(NewData(LoadTime)), poll'.log, 1)) ]_vars

\* C19: when a poll resumes from a wait that a notification released, the
\* record holds what that notification's frame decodes to; and the record
\* read at the end of a poll holds every frame delivered during the poll.
C19_Claim ==
    /\ [][ (\/ (pc = "wait1" /\ pc' = "write2")
            \/ (pc = "wait2" /\ pc' # "wait2" /\ bms[1].event))
            => Reflects(Rec(1), DriverFrames[evtBy[1].f]) ]_vars
    /\ SnapshotReflectsFrames

\* C20: when every transport call eventually returns or raises and a wait
\* that no notification releases eventually times out, every poll that
\* has started eventually ends, and no poll waits more than twice.
C20_PollEnds ==
    /\ (pc # "idle") ~> (pc = "idle")
    /\ [](Len(poll.wake) <= 2)

\* a poll whose first wait was released by a notification and whose
\* second wait timed out has ended
C20_Witness ==
    /\ PollDone
    /\ Len(poll.wake) = 2
    /\ ~poll.wake[1].timeout
    /\ poll.wake[2].timeout
    /\ poll.fails = {"wait2"}

\* C21: whenever _connect has ended and the client reports connected, in
\* particular while a poll writes a command or waits for the response, the
\* notification subscription is installed.
C21_Claim ==
    (/\ pc \in {"write1", "wait1", "write2", "wait2"}
     /\ bms[1].client /\ bms[1].connected)
        => bms[1].notify

C23_Claim ==
    [][ (pc # "idle" /\ pc' = "idle" /\ outcome' = "returned") =>
            (IsSet(voltAt') /\ now' - voltAt'[1] <= MAX_TIME_S) ]_vars

\* C24: a poll whose two waits were both released without a timeout and
\* that returns a reading has had a well-formed realtime frame and a
\* well-formed capacity frame reach the handler, and its reading holds
\* total voltage, state of charge and remaining capacity.
C24_Claim ==
    (/\ PollDone
     /\ Len(poll.wake) = 2
     /\ ~poll.wake[1].timeout /\ ~poll.wake[2].timeout
     /\ outcome = "returned")
        => /\ Populated
           /\ \E j \in 1..Len(poll.log) : poll.log[j].d /\ poll.log[j].f \in GoodRealtime
           /\ \E j \in 1..Len(poll.log) : poll.log[j].d /\ poll.log[j].f \in GoodCapacity

====
